---- MODULE Spec2Model ----
(***************************************************************************)
(* Patent search orchestration (PatentSearchService.searchPatents) over    *)
(* the lexical backend (BigQueryService) and the vector backend            *)
(* (SemanticSearchService).                                                *)
(*                                                                         *)
(* One search request is one asynchronous task.  Every await on a backend  *)
(* call is one step; the synchronous code that follows the await belongs   *)
(* to the same step.  Each backend call either resolves or rejects.        *)
(*                                                                         *)
(* Scores are kept in hundredths (similarity_score 0.7 is 70), dates as    *)
(* the integer the warehouse stores (publication_date INT64, YYYYMMDD      *)
(* order), so that every comparison of the source is an integer            *)
(* comparison.                                                             *)
(***************************************************************************)
EXTENDS Integers, Sequences, FiniteSets

\* ---------------------------------------------------------------- bounds
NumIds == 3         \* publication numbers known to either backend
MaxLimit == 3       \* largest request limit explored

\* ------------------------------------------------------ program constants
MaxResults == 1000  \* config.bigquery.maxResults

Ids == 1..NumIds
SearchTypes == {"semantic", "keyword", "hybrid"}
\* similarity scores the vector backend may report, in hundredths
ScoreValues == {0, 50, 100}
\* minSimilarity values of a request, in hundredths
MinSimilarityValues == {0, 70}
\* usage.total_tokens reported for the request's query text
QueryTokens == 3

VARIABLES
    kwMatch,              \* warehouse: rows matching the request's query+filters
    mode, limit, minSimilarity,   \* CombinedSearchRequest
    pc,                   \* searchPatents: idle / search / tokens / done / error
    spc,                  \* performSemanticSearch position
    filtered,             \* performSemanticSearch: filteredResults while in scope
    semOut,               \* value performSemanticSearch resolved with
    semPath,              \* which return statement of performSemanticSearch ran
    kpc,                  \* performKeywordSearch (keyword mode / hybrid branch)
    kwOut,                \* value performKeywordSearch resolved with
    hpc,                  \* performHybridSearch position
    hybridPath,           \* which return statement of performHybridSearch ran
    results, semanticResultCount, keywordResultCount, queryTokens,
    response,             \* SearchResponse handed to the caller
    kwCalls,              \* searchPatentsByKeywords calls issued by this request
    kwFailed,             \* a searchPatentsByKeywords call has rejected
    vecSucceeded,         \* an embedding or vector query call has resolved
    semSearchFailed,      \* semanticPatentSearch (embedding, vector query) has rejected
    servedTokens,         \* usage.total_tokens of the embedding the vector query used
    settled               \* the branches ("semantic", "keyword") in the order they settled

\* search_metadata.filters_applied of searchPatents
VARIABLES
    filters,              \* request.filters
    filtersApplied,       \* search_metadata.filters_applied
    fpc                   \* "idle" before the return statement, "done" after

filterVars == <<filters, filtersApplied, fpc>>

\* POST /api/search/batch
VARIABLES
    batchQueries,         \* req.body.queries
    batchSearch,          \* per query: its searchPatents call ("pending", "resolved", "rejected")
    batchEntries,         \* per query: the value its promise of searchPromises resolved with
    batchResponse,        \* body handed to res.json
    bpc                   \* handler position: "idle", "await", "done", "error"

batchVars == <<batchQueries, batchSearch, batchEntries, batchResponse, bpc>>

\* one HTTP request passing app.use('/api/...', authMiddleware), the router
\* and the global error handler
VARIABLES
    reqRoute,             \* mount path of the request
    reqHeader,            \* req.headers.authorization
    reqUser,              \* req.user
    apc,                  \* "idle", "auth", "verify", "handler", "errorHandler", "responded"
    nextCalls,            \* calls of next made by authMiddleware
    nextError,            \* the error handed to next, NoError if none
    handlerRuns,          \* invocations of the route handler
    tokenVerified,        \* verifyIdToken has resolved for this request
    resStatus             \* res.statusCode once responded

authVars == <<reqRoute, reqHeader, reqUser, apc, nextCalls, nextError, handlerRuns,
              tokenVerified, resStatus>>

\* the middleware createUserRateLimit(maxRequests, windowMs) returns
VARIABLES
    maxRequests, windowMs,  \* the arguments it was created with
    userRequests,           \* Map userId -> {count, resetTime}
    now,                    \* Date.now()
    admitted,               \* per user: requests passed to next since the window began
    lastAnswer              \* what the last request got: "next", "429", "401"

rateVars == <<maxRequests, windowMs, userRequests, now, admitted, lastAnswer>>

\* getRelatedPatents, one call
VARIABLES
    patentId,             \* its argument
    rpc,                  \* idle / citations / original / similar / done / error
    citations,            \* what getPatentCitations resolved with
    originalPatents,      \* what getPatentsByIds([patentId]) resolved with
    semanticFound,        \* what performSemanticSearch resolved with
    related,              \* the value getRelatedPatents resolves with
    thrown                \* the awaited call whose rejection the catch block rethrew

relatedVars == <<patentId, rpc, citations, originalPatents, semanticFound,
                 related, thrown>>

\* one retrieval over a corpus whose records carry the filtered attributes
VARIABLES
    qFilters,             \* the request's filters
    qService,             \* which of the two copies of the warehouse service is built in
    qLimit,               \* limit
    qpc,                  \* idle / keyword / vector / enrich / done / error
    qPath,                \* "keyword" or "vector" once rows were returned
    qMatches,             \* ids the vector index answered with
    qRows                 \* the records returned

queryVars == <<qFilters, qService, qLimit, qpc, qPath, qMatches, qRows>>

\* what a search request leaves alone
\* indexPatentsForSemanticSearch, one run
VARIABLES
    corpusSize,           \* warehouse: number of records matching the job's filters
    batchSize,            \* the batchSize argument
    ipc,                  \* idle / fetch / embed / upsert / done / error
    offset, totalIndexed, totalErrors,   \* the job's locals
    fetches,              \* searchPatentsByKeywords calls that returned
    patentBatch,              \* the fetched batch in hand
    position,             \* records of it that indexPatentEmbeddings has processed
    vectors,              \* the vectors prepared for the next upsert call
    upserted,             \* vector index: number of vectors upsert calls stored
    passed                \* per record: times it was passed to indexPatentEmbeddings

indexVars == <<corpusSize, batchSize, ipc, offset, totalIndexed, totalErrors,
               fetches, patentBatch, position, vectors, upserted, passed>>

\* generatePatentLandscape, run twice over the same backend responses
VARIABLES
    samplePatents,        \* ids of the hybrid search's records, in rank order
    citationData,         \* warehouse: the <<citing, cited>> pairs among them
    networks              \* the citationNetwork of each run so far

landVars == <<samplePatents, citationData, networks>>

\* the retrieval, indexing and landscape operations
restVars == <<queryVars, indexVars, landVars>>

auxVars == <<filterVars, batchVars, authVars, rateVars, relatedVars, restVars>>

\* what each of the other operations leaves alone
exceptFilters == <<batchVars, authVars, rateVars, relatedVars, restVars>>
exceptBatch == <<filterVars, authVars, rateVars, relatedVars, restVars>>
exceptAuth == <<filterVars, batchVars, rateVars, relatedVars, restVars>>
exceptRate == <<filterVars, batchVars, authVars, relatedVars, restVars>>
exceptRelated == <<filterVars, batchVars, authVars, rateVars, restVars>>
firstVars == <<filterVars, batchVars, authVars, rateVars, relatedVars>>
exceptQuery == <<firstVars, indexVars, landVars>>
exceptIndex == <<firstVars, queryVars, landVars>>
exceptLand == <<firstVars, queryVars, indexVars>>

searchVars == <<kwMatch, mode, limit, minSimilarity, pc, spc, filtered,
                semOut, semPath, kpc, kwOut, hpc, hybridPath, results,
                semanticResultCount, keywordResultCount, queryTokens, response,
                kwCalls, kwFailed, vecSucceeded, semSearchFailed, servedTokens,
                settled>>

vars == <<searchVars, auxVars>>

\* ------------------------------------------------------------- helpers
Min(a, b) == IF a < b THEN a ELSE b

\* slice(0, n + 1): the end index taken as inclusive
SliceOffByOne(s, n) == SubSeq(s, 1, Min(Len(s), n + 1))

\* Array.prototype.slice(0, n)
Slice(s, n) == SubSeq(s, 1, Min(Len(s), n))

\* Array.prototype.filter, for a test given as the set of passing elements
RECURSIVE SelectIn(_, _)
SelectIn(s, keep) ==
    IF s = <<>> THEN <<>>
    ELSE IF Head(s) \in keep THEN <<Head(s)>> \o SelectIn(Tail(s), keep)
    ELSE SelectIn(Tail(s), keep)

\* Array.prototype.sort(compare), which is stable.  cmp[i][j] is the value of
\* compare(s[i], s[j]); a negative value puts s[i] first.  The array and the
\* comparison table are bound once (v, c) and the result is read off them.
StableSort(s, cmp) ==
    LET Pos(v, c, i) ==
            1 + Cardinality({j \in 1..Len(v) :
                    \/ c[j][i] < 0
                    \/ (c[i][j] >= 0 /\ j < i)})
        Sorted(v, c) == [k \in 1..Len(v) |-> v[CHOOSE i \in 1..Len(v) : Pos(v, c, i) = k]]
    IN CHOOSE sorted \in {Sorted(v, c) : v \in {s}, c \in {cmp}} : TRUE

\* the elements of a set of integers in ascending order
SetToSeq(S) ==
    [k \in 1..Cardinality(S) |->
        CHOOSE x \in S : Cardinality({y \in S : y < x}) = k - 1]

IdsOf(s) == {s[i].patent_id : i \in 1..Len(s)}

\* Math.floor(limit * 0.7) in IEEE doubles: 90 * 0.7 is 62.99999999999999
FloorSeventy(n) ==
    IF n \in {90, 170, 180} THEN (n * 7) \div 10 - 1 ELSE (n * 7) \div 10

\* Math.floor(limit * 0.5)
FloorHalf(n) == n \div 2

\* ------------------------------------------------- lexical backend
\* publication_date (INT64, YYYYMMDD) of the warehouse row of a publication:
\* some rows share a date, others differ
PubDate(id) == 20200115 + (id \div 2) * 10000

\* transformBigQueryResults: one PatentResult per row, similarity_score 0
TransformRow(id) ==
    [patent_id |-> id, publication_date |-> PubDate(id), similarity_score |-> 0]

\* rows.map(row => ({...})), the rows bound once
TransformBigQueryResults(rows) ==
    CHOOSE patents \in {[i \in 1..Len(r) |-> TransformRow(r[i])] : r \in {rows}} : TRUE

\* LIMIT n
SqlLimit(rows, n) == SubSeq(rows, 1, Min(Len(rows), n))

\* ORDER BY p.publication_date DESC over rows kept in storage (id) order
CompareDateDesc(a, b) == PubDate(b) - PubDate(a)
CompareDateDescTable(rows) ==
    [i \in 1..Len(rows) |-> [j \in 1..Len(rows) |-> CompareDateDesc(rows[i], rows[j])]]
OrderByDateDesc(rows) ==
    StableSort(rows, CompareDateDescTable(rows))

\* searchPatentsByKeywords(query, filters, lim): the matching rows, newest
\* first, LIMIT min(lim, maxResults)
SearchPatentsByKeywords(lim) ==
    TransformBigQueryResults(
        SqlLimit(OrderByDateDesc(SetToSeq(kwMatch)), Min(lim, MaxResults)))

\* every order in which the rows of a set can come back
RowOrders ==
    [S \in SUBSET Ids |->
        {p \in [1..Cardinality(S) -> S] :
            \A i, j \in 1..Cardinality(S) : p[i] = p[j] => i = j}]

\* getPatentsByIds(ids): WHERE publication_number IN (ids), no ORDER BY.
\* Every requested row the warehouse holds comes back, in any order; rows
\* that match the keyword query are held, any other requested id may be
\* unknown to the warehouse.
GetPatentsByIdsResponses(ids) ==
    UNION {{TransformBigQueryResults(p) : p \in RowOrders[R]} :
              R \in {X \in SUBSET ids : (ids \cap kwMatch) \subseteq X}}

\* -------------------------------------------------- vector backend
\* b.similarity_score - a.similarity_score
CompareScoreDesc(a, b) == b.similarity_score - a.similarity_score

\* .sort((a, b) => b.similarity_score - a.similarity_score)
CompareScoreDescTable(s) ==
    [i \in 1..Len(s) |-> [j \in 1..Len(s) |-> CompareScoreDesc(s[i], s[j])]]
SortByScoreDesc(s) ==
    StableSort(s, CompareScoreDescTable(s))

\* the match list of a vector index content f (id -> score): descending
\* score, ties in id order; match.score || 0 is the score kept
MatchList(f) ==
    LET ids == SetToSeq(DOMAIN f)
    IN SortByScoreDesc([k \in 1..Len(ids) |->
                           [patent_id |-> ids[k], similarity_score |-> f[ids[k]]]])

\* the match lists of every content the index can have
MatchLists == {MatchList(f) : f \in UNION {[X -> ScoreValues] : X \in SUBSET Ids}}

\* searchSimilarPatents(embedding, topK): at most topK matches with distinct
\* ids, whatever the index holds
SearchSimilarPatentsResponses(topK) == {m \in MatchLists : Len(m) <= topK}

\* ------------------------------------------- PatentSearchService helpers
\* the threshold filter left out
FilterIgnoringThreshold(semanticResults, minSim) == semanticResults

\* semanticResults.filter(result => result.similarity_score >= minSimilarity)
FilterBySimilarity(semanticResults, minSim) ==
    SelectIn(semanticResults,
             {semanticResults[i] : i \in {j \in 1..Len(semanticResults) :
                  semanticResults[j].similarity_score >= minSim}})

\* new Map(semanticResults.map(...)).get(id) || 0: the last entry of the id
\* wins, a missing id (or a score of 0) gives 0
ScoreMapGet(semanticResults, id) ==
    LET at == {i \in 1..Len(semanticResults) : semanticResults[i].patent_id = id}
    IN IF at = {} THEN 0
       ELSE semanticResults[CHOOSE i \in at : \A j \in at : j <= i].similarity_score

\* mergeSimilarityScores(patents, semanticResults)
MergeSimilarityScores(patents, semanticResults) ==
    SortByScoreDesc([i \in 1..Len(patents) |->
                        [patents[i] EXCEPT !.similarity_score =
                             ScoreMapGet(semanticResults, patents[i].patent_id)]])

\* similarity_score * 1.2, on hundredths
Boost(score) == (score * 12) \div 10

\* Map.has(id) on a map kept as the sequence of its values in insertion order
MapHas(m, id) == \E i \in 1..Len(m) : m[i].patent_id = id

\* Map.set(rec.patent_id, rec): a present key keeps its place
MapSet(m, rec) ==
    IF MapHas(m, rec.patent_id)
    THEN [i \in 1..Len(m) |-> IF m[i].patent_id = rec.patent_id THEN rec ELSE m[i]]
    ELSE Append(m, rec)

\* semanticResults.forEach(result => resultMap.set(id, boosted result))
RECURSIVE InsertSemantic(_, _)
InsertSemantic(m, s) ==
    IF s = <<>> THEN m
    ELSE InsertSemantic(
            MapSet(m, [Head(s) EXCEPT !.similarity_score = Boost(Head(s).similarity_score)]),
            Tail(s))

\* keywordResults.forEach(result => resultMap.set(id, result)): no has() test
RECURSIVE InsertKeywordOverwrite(_, _)
InsertKeywordOverwrite(m, s) ==
    IF s = <<>> THEN m
    ELSE InsertKeywordOverwrite(MapSet(m, Head(s)), Tail(s))

\* keywordResults.forEach(result => { if (!resultMap.has(id)) resultMap.set(id, result) })
RECURSIVE InsertKeyword(_, _)
InsertKeyword(m, s) ==
    IF s = <<>> THEN m
    ELSE InsertKeyword(IF MapHas(m, Head(s).patent_id) THEN m ELSE MapSet(m, Head(s)),
                       Tail(s))

\* new Date(publication_date).getTime(): the warehouse integer itself, a
\* valid time value for every YYYYMMDD integer
GetTime(publication_date) == publication_date

\* the comparator without its publication_date tie-break
CompareRankScoreOnly(a, b) == b.similarity_score - a.similarity_score

\* the comparator of combineAndRankResults
CompareRank(a, b) ==
    IF b.similarity_score # a.similarity_score
    THEN b.similarity_score - a.similarity_score
    ELSE GetTime(b.publication_date) - GetTime(a.publication_date)

\* combineAndRankResults(semanticResults, keywordResults)
CompareRankTable(s) ==
    [i \in 1..Len(s) |-> [j \in 1..Len(s) |-> CompareRank(s[i], s[j])]]
CombineAndRankResults(semanticResults, keywordResults) ==
    LET values == InsertKeyword(InsertSemantic(<<>>, semanticResults), keywordResults)
    IN StableSort(values, CompareRankTable(values))

\* limit handed to performSemanticSearch / performKeywordSearch by the caller
SemLimit == IF mode = "hybrid" THEN FloorSeventy(limit) ELSE limit
KwLimit == IF mode = "hybrid" THEN FloorHalf(limit) ELSE limit

\* performHybridSearch has left its await on Promise.all by a rejection: the
\* branch still running keeps issuing its calls, the value it resolves with
\* is bound to nothing
Abandoned == mode = "hybrid" /\ hpc # "await"
Delivered(value) == IF Abandoned THEN <<>> ELSE value

\* results.filter(pred).length for the two score predicates of searchPatents
CountPositive(s) == Cardinality({i \in 1..Len(s) : s[i].similarity_score > 0})
CountZero(s) == Cardinality({i \in 1..Len(s) : s[i].similarity_score = 0})

NoResponse ==
    [results |-> <<>>, total_results |-> 0, semantic_results |-> 0,
     keyword_results |-> 0, query_tokens |-> 0]

\* the object returned by searchPatents
BuildResponse(res, semCount, kwCount, tokens) ==
    [results |-> Slice(res, limit), total_results |-> Len(res),
     semantic_results |-> semCount, keyword_results |-> kwCount,
     query_tokens |-> tokens]

\* ------------------------------------------------------ request.filters
\* PatentSearchFilters as the route's schema lets it through: every field is
\* optional; a field that is given holds an array (possibly empty) or, for
\* dateRange, an object whose start and end are optional strings.
Undefined == "undefined"
DateValues == {Undefined, "", "2020-01-01"}
DateRangeValues ==
    {[defined |-> FALSE, start |-> Undefined, end |-> Undefined]}
        \cup {[defined |-> TRUE, start |-> a, end |-> b] : a \in DateValues, b \in DateValues}
ListValues ==
    {[defined |-> FALSE, items |-> <<>>],
     [defined |-> TRUE, items |-> <<>>],
     [defined |-> TRUE, items |-> <<"a">>]}
NoFilters ==
    [defined |-> FALSE,
     dateRange |-> [defined |-> FALSE, start |-> Undefined, end |-> Undefined],
     countries |-> [defined |-> FALSE, items |-> <<>>],
     assignees |-> [defined |-> FALSE, items |-> <<>>],
     classifications |-> [defined |-> FALSE, items |-> <<>>]]
FilterValues ==
    {NoFilters} \cup
    {[defined |-> TRUE, dateRange |-> d, countries |-> c, assignees |-> a,
      classifications |-> k] :
        d \in DateRangeValues, c \in ListValues, a \in ListValues, k \in ListValues}

\* Object.keys(filters) for an object the schema produced
FilterNames == <<"dateRange", "countries", "assignees", "classifications">>

\* the truthiness test key => filters[key]: undefined is falsy, every array
\* and every object is truthy
Truthy(field) == field.defined

\* filters ? Object.keys(filters).filter(key => filters[key]) : []
FiltersApplied(f) ==
    IF f.defined
    THEN SelectIn(FilterNames,
                  {FilterNames[i] : i \in {j \in 1..Len(FilterNames) :
                       Truthy(f[FilterNames[j]])}})
    ELSE <<>>

\* ------------------------------------------------ POST /api/search/batch
MaxQueries == 3     \* longest queries array explored (the schema allows 10)
QueryStrings == {"q1", "q2"}

\* req.body.queries: arrays of queries, the empty one failing the schema
QueryArrays == UNION {[1..n -> QueryStrings] : n \in 0..MaxQueries}

NoEntry == [index |-> -1]
NoBatchResponse == [results |-> <<>>, total_queries |-> 0, successful_queries |-> 0]

\* the two objects a promise of searchPromises resolves with; index is the
\* 0-based position Array.prototype.map hands to the callback
SuccessEntry(query, index) ==
    [query |-> query, index |-> index, success |-> TRUE, data |-> "SearchResponse"]
FailureEntry(query, index) ==
    [query |-> query, index |-> index, success |-> FALSE, error |-> "message"]

\* results.filter(r => r.success).length
CountSuccess(entries) == Cardinality({i \in 1..Len(entries) : entries[i].success})

\* ------------------------------------------------------- errorHandler
\* An error is taken by what errorHandler reads of it: statusCode (0 when the
\* property is undefined), name, and which of the substrings the handler looks
\* for its message contains.
MessageWords ==
    {"BigQuery", "OpenAI", "embedding", "Pinecone", "vector", "rate limit", "quota"}
ErrorNames == {"Error", "ValidationError", "CastError", "UnauthorizedError"}

\* new AppError(message, statusCode): name stays 'Error'
AppError(words, statusCode) == [statusCode |-> statusCode, name |-> "Error", words |-> words]
NoError == [statusCode |-> 0, name |-> "none", words |-> {}]

\* the status errorHandler answers with: err.statusCode || 500, then each
\* if statement in turn, a later one overriding an earlier one
AfterNames(err) ==
    IF err.name = "UnauthorizedError" THEN 401
    ELSE IF err.name \in {"ValidationError", "CastError"} THEN 400
    ELSE IF err.statusCode = 0 THEN 500
    ELSE err.statusCode
ErrorStatus(err) ==
    IF "rate limit" \in err.words \/ "quota" \in err.words THEN 429
    ELSE IF err.words \cap {"BigQuery", "OpenAI", "embedding", "Pinecone", "vector"} # {}
         THEN 503
    ELSE AfterNames(err)

\* ------------------------------------------- filters in the retrievals
\* A corpus of eight publications, one per combination of country, assignee
\* and classification code; a record is written with the attributes the
\* filters speak about.
MaxFetch == 2         \* largest limit explored
CountryCodes == {"US", "EP"}
AssigneeNames == {"Acme Corp", "Bolt AG"}
ClassCodes == {"G06N", "H04L"}
CorpusId(c, a, k) ==
    1 + (IF c = "EP" THEN 4 ELSE 0) + (IF a = "Bolt AG" THEN 2 ELSE 0)
      + (IF k = "H04L" THEN 1 ELSE 0)
Corpus ==
    {[patent_id |-> CorpusId(c, a, k),
      publication_date |-> IF CorpusId(c, a, k) \in {2, 3, 5, 8} THEN 20200101 ELSE 20220115,
      country_code |-> c, assignee |-> a, classification |-> k] :
        c \in CountryCodes, a \in AssigneeNames, k \in ClassCodes}
CorpusIds == {row.patent_id : row \in Corpus}

\* the filters a request can carry: each list absent, empty or of one item
ItemLists(item) ==
    {[defined |-> FALSE, items |-> <<>>],
     [defined |-> TRUE, items |-> <<>>],
     [defined |-> TRUE, items |-> <<item>>]}
QueryFilterValues ==
    {NoFilters} \cup
    {[defined |-> TRUE, dateRange |-> d, countries |-> c, assignees |-> a,
      classifications |-> k] :
        d \in DateRangeValues, c \in ItemLists("US"), a \in ItemLists("acme"),
        k \in ItemLists("G06")}

\* a string in a JavaScript condition: undefined and '' are falsy
TruthyString(str) == str \notin {Undefined, ""}
\* the day an ISO date string names, as the warehouse writes days
DateNumber(str) == IF str = "2020-01-01" THEN 20200101 ELSE 0
\* LOWER(name) LIKE LOWER('%term%')
LowerLike(name, term) == name = "Acme Corp" /\ term = "acme"
\* code LIKE 'prefix%'
PrefixLike(code, prefix) == code = "G06N" /\ prefix = "G06"
ItemsOf(list) == {list.items[i] : i \in 1..Len(list.items)}

\* buildFilterConditions: the AND conditions it appends, as a test on a row.
\* The copy in part_001 reads dateRange and countries, the copy in part_002
\* reads assignees as well; neither reads classifications.  The date
\* conditions are taken to compare days inclusively.
BuildFilterConditions(f, service, row) ==
    /\ f.dateRange.defined =>
          /\ TruthyString(f.dateRange.start) =>
                row.publication_date >= DateNumber(f.dateRange.start)
          /\ TruthyString(f.dateRange.end) =>
                row.publication_date <= DateNumber(f.dateRange.end)
    /\ (f.countries.defined /\ Len(f.countries.items) > 0) =>
          row.country_code \in ItemsOf(f.countries)
    /\ (service = "part_002" /\ f.assignees.defined /\ Len(f.assignees.items) > 0) =>
          \E assignee \in ItemsOf(f.assignees) : LowerLike(row.assignee, assignee)

\* buildKeywordSearchQuery: the rows its WHERE clause lets through
KeywordWhere(f, service) ==
    {row \in Corpus : f.defined => BuildFilterConditions(f, service, row)}

\* buildPatentIdQuery: WHERE publication_number IN (ids)
PatentIdWhere(ids) == {row \in Corpus : row.patent_id \in ids}

\* LIMIT n, slice(0, n): the selections of n of the rows (all, when fewer)
Limited(rows, n) ==
    {sel \in SUBSET rows : Cardinality(sel) = Min(n, Cardinality(rows))}

\* ------------------------------------------------------ bulk indexing
MaxCorpus == 3        \* most records the job's query matches
MaxBatchSize == 3     \* largest batchSize argument explored
\* the safety limit on offset, 100000 in the code, scaled down
SafetyLimit == 4
\* records per upsert call, 100 in the code, scaled down
UpsertBatch == 2

\* searchPatentsByKeywords('', filters, batchSize): the query carries no
\* offset, so every call answers with the first batchSize matching records
FetchedBatch(size, n) == Slice([id \in 1..size |-> id], n)

\* if (offset > 100000) at twice the limit
ReachedSafetyLimitAtTwice(off) == off > 2 * SafetyLimit

\* if (offset > 100000)
ReachedSafetyLimit(off) == off > SafetyLimit

\* ------------------------------------------------- buildCitationNetwork
MaxSample == 3        \* most sample patents explored (the code passes up to 50)
\* Math.min(patents.length, 20)
EdgeNodes == 20
\* Math.random() for a weight, in hundredths
WeightValues == {10, 90}

\* the pairs the two loops visit: i < j < Math.min(patents.length, 20)
VisitedPairs(sample) ==
    {<<sample[p[1]], sample[p[2]]>> :
        p \in {q \in (1..Min(Len(sample), EdgeNodes)) \X (1..Min(Len(sample), EdgeNodes)) :
                  q[1] < q[2]}}

\* the edge lists the loops can build: each visited pair is pushed when
\* Math.random() > 0.8, with a Math.random() weight
EdgeSets(sample) ==
    {{[source |-> pair[1], target |-> pair[2], weight |-> w[pair]] : pair \in chosen} :
        chosen \in SUBSET VisitedPairs(sample), w \in [VisitedPairs(sample) -> WeightValues]}

\* --------------------------------------------------- getRelatedPatents
\* records are written as their patent_id; the warehouse holds ids 1..MaxSimilar
MaxSimilar == 12
RelatedIds == 1..MaxSimilar
\* performSemanticSearch(searchText, 20, undefined, 0.8)
SimilarLimit == 20
\* similar.slice(0, 10)
SimilarCap == 10

CitationLists == {<<>>, <<1>>, <<2, 1>>}
NoCitations == [citing |-> <<>>, cited |-> <<>>]
NoRelated == [citing |-> <<>>, cited |-> <<>>, similar |-> <<>>]

\* the lists performSemanticSearch can resolve with: at most its limit of
\* records, here n consecutive ids starting after k
SemanticLists ==
    {[i \in 1..n |-> ((k + i - 1) % MaxSimilar) + 1] :
        k \in 0..(MaxSimilar - 1), n \in 0..Min(SimilarLimit, MaxSimilar)}

\* similar.filter(p => p.patent_id !== patentId)
RemoveOriginal(similar, id) == SelectIn(similar, RelatedIds \ {id})

\* ------------------------------------------------- createUserRateLimit
MaxRequestsArg == 2   \* largest maxRequests explored
MaxWindowMs == 2      \* largest windowMs explored
MaxNow == 4           \* the clock is followed up to this instant
Users == {"u1", "u2"}

\* new Map(): no user has an entry
NoUserRequests == [u \in Users |-> [present |-> FALSE, count |-> 0, resetTime |-> 0]]

\* ---------------------------------------------------------------- state
reqVars == <<mode, limit, minSimilarity>>
dataVars == <<kwMatch>>
semVars == <<spc, filtered, semOut, semPath>>
kwVars == <<kpc, kwOut>>
hybVars == <<hpc, hybridPath>>
outVars == <<results, semanticResultCount, keywordResultCount, queryTokens, response>>
mainVars == <<pc, results, semanticResultCount, keywordResultCount, queryTokens, response>>
lexHist == <<kwCalls, kwFailed>>
vecHist == <<vecSucceeded, semSearchFailed, servedTokens>>

\* the other operations have not been called
FiltersIdle == filters = NoFilters /\ filtersApplied = <<>> /\ fpc = "idle"

BatchIdle ==
    /\ batchQueries = <<>> /\ batchSearch = <<>> /\ batchEntries = <<>>
    /\ batchResponse = NoBatchResponse /\ bpc = "idle"

AuthIdle ==
    /\ reqRoute = "none" /\ reqHeader = "none" /\ reqUser = "none" /\ apc = "idle"
    /\ nextCalls = 0 /\ nextError = NoError /\ handlerRuns = 0
    /\ tokenVerified = FALSE /\ resStatus = 0

RateIdle ==
    /\ maxRequests = 0 /\ windowMs = 0 /\ userRequests = NoUserRequests
    /\ now = 0 /\ admitted = [u \in Users |-> 0] /\ lastAnswer = "none"

RelatedIdle ==
    /\ patentId = 0 /\ rpc = "idle" /\ citations = NoCitations
    /\ originalPatents = <<>> /\ semanticFound = <<>>
    /\ related = NoRelated /\ thrown = "none"

QueryIdle ==
    /\ qFilters = NoFilters /\ qService = "none" /\ qLimit = 0 /\ qpc = "idle"
    /\ qPath = "none" /\ qMatches = {} /\ qRows = {}

IndexIdle ==
    /\ corpusSize = 0 /\ batchSize = 0 /\ ipc = "idle"
    /\ offset = 0 /\ totalIndexed = 0 /\ totalErrors = 0 /\ fetches = 0
    /\ patentBatch = <<>> /\ position = 0 /\ vectors = <<>> /\ upserted = 0
    /\ passed = [id \in 1..MaxCorpus |-> 0]

LandIdle == samplePatents = <<>> /\ citationData = {} /\ networks = <<>>

RestIdle == QueryIdle /\ IndexIdle /\ LandIdle

FirstIdle == FiltersIdle /\ BatchIdle /\ AuthIdle /\ RateIdle /\ RelatedIdle

AuxIdle == FirstIdle /\ RestIdle

\* no search request has been made
SearchIdle ==
    /\ mode = "none" /\ limit = 0 /\ minSimilarity = 0
    /\ pc = "idle"
    /\ spc = "idle" /\ filtered = <<>> /\ semOut = <<>> /\ semPath = "none"
    /\ kpc = "idle" /\ kwOut = <<>>
    /\ hpc = "idle" /\ hybridPath = "none"
    /\ results = <<>> /\ semanticResultCount = 0 /\ keywordResultCount = 0
    /\ queryTokens = 0 /\ response = NoResponse
    /\ kwCalls = 0 /\ kwFailed = FALSE
    /\ vecSucceeded = FALSE /\ semSearchFailed = FALSE /\ servedTokens = 0
    /\ settled = <<>>

Init ==
    /\ kwMatch \in SUBSET Ids
    /\ SearchIdle
    /\ AuxIdle

\* searchPatents(request) up to its first await: the switch on searchType
\* starts performSemanticSearch, performKeywordSearch or performHybridSearch
\* (which starts both)
SearchPatents(searchType, lim, minSim) ==
    /\ pc = "idle"
    /\ mode' = searchType /\ limit' = lim /\ minSimilarity' = minSim
    /\ pc' = "search"
    /\ spc' = IF searchType = "keyword" THEN "idle" ELSE "embed"
    /\ kpc' = IF searchType = "semantic" THEN "idle" ELSE "call"
    /\ hpc' = IF searchType = "hybrid" THEN "await" ELSE "idle"
    /\ UNCHANGED <<auxVars, settled, dataVars, filtered, semOut, semPath, kwOut, hybridPath,
                   outVars, lexHist, vecHist>>

\* ------------------------------------------------ performSemanticSearch
\* semanticPatentSearch: generateEmbedding resolves
SemEmbedResolve ==
    /\ spc = "embed"
    /\ spc' = "query"
    /\ vecSucceeded' = TRUE
    /\ servedTokens' = QueryTokens
    /\ UNCHANGED <<auxVars, settled, dataVars, reqVars, mainVars, filtered, semOut, semPath,
                   kwVars, hybVars, lexHist, semSearchFailed>>

\* generateEmbedding rejects: control reaches the catch block
SemEmbedReject ==
    /\ spc = "embed"
    /\ spc' = "catch"
    /\ semSearchFailed' = TRUE
    /\ UNCHANGED <<auxVars, settled, dataVars, reqVars, mainVars, filtered, semOut, semPath,
                   kwVars, hybVars, lexHist, vecSucceeded, servedTokens>>

\* searchSimilarPatents(embedding, limit * 2) resolves; the threshold filter
\* and the test for an empty filtered list follow without an await
SemQueryResolve ==
    /\ spc = "query"
    /\ \E filteredResults \in
              {FilterBySimilarity(semanticResults, minSimilarity) :
                  semanticResults \in SearchSimilarPatentsResponses(SemLimit * 2)} :
          /\ filtered' = filteredResults
          /\ spc' = IF filteredResults = <<>> THEN "fallback" ELSE "enrich"
    /\ vecSucceeded' = TRUE
    /\ UNCHANGED <<auxVars, settled, dataVars, reqVars, mainVars, semOut, semPath,
                   kwVars, hybVars, lexHist, semSearchFailed, servedTokens>>

\* the rejection of the vector query rethrown instead of handled
SemQueryRethrow ==
    /\ spc = "query"
    /\ spc' = "rejected"
    /\ settled' = Append(settled, "semantic")
    /\ semSearchFailed' = TRUE
    /\ UNCHANGED <<auxVars, dataVars, reqVars, mainVars, filtered, semOut, semPath,
                   kwVars, hybVars, lexHist, vecSucceeded, servedTokens>>

SemQueryReject ==
    /\ spc = "query"
    /\ spc' = "catch"
    /\ semSearchFailed' = TRUE
    /\ UNCHANGED <<auxVars, settled, dataVars, reqVars, mainVars, filtered, semOut, semPath,
                   kwVars, hybVars, lexHist, vecSucceeded, servedTokens>>

\* getPatentsByIds(patentIds) resolves; merge, sort and slice follow
SemEnrichResolve ==
    /\ spc = "enrich"
    /\ \E merged \in
              {Slice(MergeSimilarityScores(patents, filtered), SemLimit) :
                  patents \in GetPatentsByIdsResponses(IdsOf(filtered))} :
          semOut' = Delivered(merged)
    /\ semPath' = "vector"
    /\ spc' = "done"
    /\ settled' = Append(settled, "semantic")
    /\ filtered' = <<>>
    /\ UNCHANGED <<auxVars, dataVars, reqVars, mainVars, kwVars, hybVars, lexHist, vecHist>>

SemEnrichReject ==
    /\ spc = "enrich"
    /\ spc' = "catch"
    /\ filtered' = <<>>
    /\ UNCHANGED <<auxVars, settled, dataVars, reqVars, mainVars, semOut, semPath,
                   kwVars, hybVars, lexHist, vecHist>>

\* the keyword search issued when the filtered list is empty resolves
SemFallbackResolve ==
    /\ spc = "fallback"
    /\ semOut' = Delivered(SearchPatentsByKeywords(SemLimit))
    /\ semPath' = "empty"
    /\ spc' = "done"
    /\ settled' = Append(settled, "semantic")
    /\ kwCalls' = kwCalls + 1
    /\ UNCHANGED <<auxVars, dataVars, reqVars, mainVars, filtered, kwVars, hybVars,
                   kwFailed, vecHist>>

\* it rejects inside the try block: control reaches the catch block
SemFallbackReject ==
    /\ spc = "fallback"
    /\ spc' = "catch"
    /\ kwCalls' = kwCalls + 1
    /\ kwFailed' = TRUE
    /\ UNCHANGED <<auxVars, settled, dataVars, reqVars, mainVars, filtered, semOut, semPath,
                   kwVars, hybVars, vecHist>>

\* a catch block that returns [] instead of the keyword results
SemCatchReturnsEmpty ==
    /\ spc = "catch"
    /\ semOut' = <<>>
    /\ semPath' = "catch"
    /\ spc' = "done"
    /\ settled' = Append(settled, "semantic")
    /\ UNCHANGED <<auxVars, dataVars, reqVars, mainVars, filtered, kwVars, hybVars,
                   lexHist, vecHist>>

\* the keyword search of the catch block resolves
SemCatchResolve ==
    /\ spc = "catch"
    /\ semOut' = Delivered(SearchPatentsByKeywords(SemLimit))
    /\ semPath' = "catch"
    /\ spc' = "done"
    /\ settled' = Append(settled, "semantic")
    /\ kwCalls' = kwCalls + 1
    /\ UNCHANGED <<auxVars, dataVars, reqVars, mainVars, filtered, kwVars, hybVars,
                   kwFailed, vecHist>>

\* it rejects: performSemanticSearch rejects
SemCatchReject ==
    /\ spc = "catch"
    /\ spc' = "rejected"
    /\ settled' = Append(settled, "semantic")
    /\ kwCalls' = kwCalls + 1
    /\ kwFailed' = TRUE
    /\ UNCHANGED <<auxVars, dataVars, reqVars, mainVars, filtered, semOut, semPath,
                   kwVars, hybVars, vecHist>>

\* ------------------------------------------------- performKeywordSearch
KwResolve ==
    /\ kpc = "call"
    /\ kwOut' = Delivered(SearchPatentsByKeywords(KwLimit))
    /\ kpc' = "done"
    /\ settled' = Append(settled, "keyword")
    /\ kwCalls' = kwCalls + 1
    /\ UNCHANGED <<auxVars, dataVars, reqVars, mainVars, semVars, hybVars, kwFailed, vecHist>>

KwReject ==
    /\ kpc = "call"
    /\ kpc' = "rejected"
    /\ settled' = Append(settled, "keyword")
    /\ kwCalls' = kwCalls + 1
    /\ kwFailed' = TRUE
    /\ UNCHANGED <<auxVars, dataVars, reqVars, mainVars, semVars, kwOut, hybVars, vecHist>>

\* -------------------------------------------------- performHybridSearch
\* the two values taken in the order the branches settled
HybridCombineInSettledOrder ==
    /\ mode = "hybrid" /\ pc = "search" /\ hpc = "await"
    /\ spc = "done" /\ kpc = "done"
    /\ results' = IF settled[1] = "semantic"
                  THEN Slice(CombineAndRankResults(semOut, kwOut), limit)
                  ELSE Slice(CombineAndRankResults(kwOut, semOut), limit)
    /\ hybridPath' = "combined"
    /\ hpc' = "done"
    /\ semanticResultCount' = CountPositive(results')
    /\ keywordResultCount' = CountZero(results')
    /\ pc' = "tokens"
    /\ UNCHANGED <<auxVars, settled, dataVars, reqVars, queryTokens, response, semVars, kwVars,
                   lexHist, vecHist>>

\* Promise.all resolves once both branches have, with their values in the
\* order of the array it was given; combineAndRankResults and the slice
\* follow, then searchPatents counts the two kinds of record and goes on to
\* getQueryTokenCount
HybridCombine ==
    /\ mode = "hybrid" /\ pc = "search" /\ hpc = "await"
    /\ spc = "done" /\ kpc = "done"
    /\ results' = Slice(CombineAndRankResults(semOut, kwOut), limit)
    /\ hybridPath' = "combined"
    /\ hpc' = "done"
    /\ semanticResultCount' = CountPositive(results')
    /\ keywordResultCount' = CountZero(results')
    /\ pc' = "tokens"
    /\ UNCHANGED <<auxVars, settled, dataVars, reqVars, queryTokens, response, semVars, kwVars,
                   lexHist, vecHist>>

\* the catch block reusing the keyword branch's share of the limit
HybridFallbackBranchLimit ==
    /\ mode = "hybrid" /\ pc = "search" /\ hpc = "await"
    /\ (spc = "rejected" \/ kpc = "rejected")
    /\ results' = SearchPatentsByKeywords(FloorHalf(limit))
    /\ hybridPath' = "fallback"
    /\ hpc' = "done"
    /\ semanticResultCount' = CountPositive(results')
    /\ keywordResultCount' = CountZero(results')
    /\ pc' = "tokens"
    /\ semOut' = <<>> /\ kwOut' = <<>>
    /\ kwCalls' = kwCalls + 1
    /\ UNCHANGED <<auxVars, settled, dataVars, reqVars, queryTokens, response, spc, filtered, semPath,
                   kpc, kwFailed, vecHist>>

\* Promise.all rejects as soon as one branch has; the catch block issues a
\* keyword search with the full limit, which resolves
HybridFallbackResolve ==
    /\ mode = "hybrid" /\ pc = "search" /\ hpc = "await"
    /\ (spc = "rejected" \/ kpc = "rejected")
    /\ results' = SearchPatentsByKeywords(limit)
    /\ hybridPath' = "fallback"
    /\ hpc' = "done"
    /\ semanticResultCount' = CountPositive(results')
    /\ keywordResultCount' = CountZero(results')
    /\ pc' = "tokens"
    /\ semOut' = <<>> /\ kwOut' = <<>>
    /\ kwCalls' = kwCalls + 1
    /\ UNCHANGED <<auxVars, settled, dataVars, reqVars, queryTokens, response, spc, filtered, semPath,
                   kpc, kwFailed, vecHist>>

\* that keyword search rejects: performHybridSearch rejects, searchPatents
\* logs and rethrows
HybridFallbackReject ==
    /\ mode = "hybrid" /\ pc = "search" /\ hpc = "await"
    /\ (spc = "rejected" \/ kpc = "rejected")
    /\ hpc' = "rejected"
    /\ hybridPath' = "fallback"
    /\ pc' = "error"
    /\ semOut' = <<>> /\ kwOut' = <<>>
    /\ kwCalls' = kwCalls + 1
    /\ kwFailed' = TRUE
    /\ UNCHANGED <<auxVars, settled, dataVars, reqVars, outVars, spc, filtered, semPath, kpc, vecHist>>

\* ------------------------------------------------------- searchPatents
\* case 'semantic': performSemanticSearch has resolved
SemanticReturn ==
    /\ mode = "semantic" /\ pc = "search" /\ spc = "done"
    /\ results' = semOut
    /\ semanticResultCount' = Len(semOut)
    /\ pc' = "tokens"
    /\ UNCHANGED <<auxVars, settled, dataVars, reqVars, keywordResultCount, queryTokens, response,
                   semVars, kwVars, hybVars, lexHist, vecHist>>

\* performSemanticSearch has rejected: log and rethrow
SemanticThrow ==
    /\ mode = "semantic" /\ pc = "search" /\ spc = "rejected"
    /\ pc' = "error"
    /\ UNCHANGED <<auxVars, settled, dataVars, reqVars, outVars, semVars, kwVars, hybVars,
                   lexHist, vecHist>>

\* case 'keyword': performKeywordSearch has resolved; the response is built
KeywordReturn ==
    /\ mode = "keyword" /\ pc = "search" /\ kpc = "done"
    /\ results' = kwOut
    /\ keywordResultCount' = Len(kwOut)
    /\ response' = BuildResponse(kwOut, semanticResultCount, Len(kwOut), queryTokens)
    /\ pc' = "done"
    /\ UNCHANGED <<auxVars, settled, dataVars, reqVars, semanticResultCount, queryTokens,
                   semVars, kwVars, hybVars, lexHist, vecHist>>

\* a rejected keyword search issued again instead of rethrown
KeywordRetry ==
    /\ mode = "keyword" /\ pc = "search" /\ kpc = "rejected"
    /\ kpc' = "call"
    /\ UNCHANGED <<auxVars, settled, dataVars, reqVars, pc, outVars, semVars, kwOut, hybVars,
                   lexHist, vecHist>>

\* performKeywordSearch has rejected: log and rethrow
KeywordThrow ==
    /\ mode = "keyword" /\ pc = "search" /\ kpc = "rejected"
    /\ pc' = "error"
    /\ UNCHANGED <<auxVars, settled, dataVars, reqVars, outVars, semVars, kwVars, hybVars,
                   lexHist, vecHist>>

\* getQueryTokenCount: generateEmbedding resolves; the response is built
TokenCountResolve ==
    /\ pc = "tokens"
    /\ queryTokens' = QueryTokens
    /\ response' = BuildResponse(results, semanticResultCount, keywordResultCount,
                                 QueryTokens)
    /\ pc' = "done"
    /\ vecSucceeded' = TRUE
    /\ UNCHANGED <<auxVars, settled, dataVars, reqVars, results, semanticResultCount,
                   keywordResultCount, semVars, kwVars, hybVars, lexHist, semSearchFailed, servedTokens>>

\* generateEmbedding rejects: getQueryTokenCount returns 0
TokenCountReject ==
    /\ pc = "tokens"
    /\ queryTokens' = 0
    /\ response' = BuildResponse(results, semanticResultCount, keywordResultCount, 0)
    /\ pc' = "done"
    /\ UNCHANGED <<auxVars, settled, dataVars, reqVars, results, semanticResultCount,
                   keywordResultCount, semVars, kwVars, hybVars, lexHist, vecHist>>

Next ==
    \/ \E searchType \in SearchTypes, lim \in 1..MaxLimit, minSim \in MinSimilarityValues :
          SearchPatents(searchType, lim, minSim)
    \/ SemEmbedResolve \/ SemEmbedReject
    \/ SemQueryResolve \/ SemQueryReject
    \/ SemEnrichResolve \/ SemEnrichReject
    \/ SemFallbackResolve \/ SemFallbackReject
    \/ SemCatchResolve \/ SemCatchReject
    \/ KwResolve \/ KwReject
    \/ HybridCombine \/ HybridFallbackResolve \/ HybridFallbackReject
    \/ SemanticReturn \/ SemanticThrow
    \/ KeywordReturn \/ KeywordThrow
    \/ TokenCountResolve \/ TokenCountReject

Spec == Init /\ [][Next]_vars

\* The continuations the event loop runs once the promise they await has
\* settled are always taken.  Whether a backend call settles is up to the
\* backend: no timer races the awaited calls, so their resolve and reject
\* steps carry no fairness.
Continuations ==
    /\ WF_vars(HybridCombine)
    /\ WF_vars(SemanticReturn) /\ WF_vars(SemanticThrow)
    /\ WF_vars(KeywordReturn) /\ WF_vars(KeywordThrow)

LiveSpec == Init /\ [][Next]_vars /\ Continuations

\* ----------------------------------- hybrid search that has to truncate
\* The two shares of a hybrid search add up to more than the limit from
\* limit 6 on (floor(4.2) + floor(3.0) = 7), so the slice of line 179 cuts
\* only when the backends hold that many publications.  WideInit is
\* performHybridSearch at its await on Promise.all with both branches
\* resolved, for such a limit and a warehouse of WideIds: the semantic branch
\* came back over the vector path with its full share, every match scored
\* and enriched, and the keyword search matches the remaining publications,
\* so that the two lists share no record and the merged list is longer than
\* the limit.
WideLimit == 2 * MaxLimit
WideIds == 1..(FloorSeventy(WideLimit) + FloorHalf(WideLimit))

WideInit ==
    /\ mode = "hybrid" /\ limit = WideLimit /\ minSimilarity = 0
    /\ pc = "search"
    /\ spc = "done" /\ filtered = <<>> /\ semPath = "vector"
    /\ kpc = "done"
    /\ hpc = "await" /\ hybridPath = "none"
    /\ results = <<>> /\ semanticResultCount = 0 /\ keywordResultCount = 0
    /\ queryTokens = 0 /\ response = NoResponse
    /\ kwCalls = 1 /\ kwFailed = FALSE
    /\ vecSucceeded = TRUE /\ semSearchFailed = FALSE /\ servedTokens = QueryTokens
    /\ settled \in {<<"semantic", "keyword">>, <<"keyword", "semantic">>}
    /\ \E X \in {S \in SUBSET WideIds : Cardinality(S) = FloorSeventy(WideLimit)} :
          /\ kwMatch = WideIds \ X
          /\ \E patents \in {TransformBigQueryResults(SetToSeq(X))},
                filteredResults \in {MatchList(f) : f \in [X -> ScoreValues]} :
                semOut = Slice(MergeSimilarityScores(patents, filteredResults),
                               FloorSeventy(WideLimit))
    /\ kwOut = SearchPatentsByKeywords(FloorHalf(WideLimit))
    /\ AuxIdle

SpecWide == (Init \/ WideInit) /\ [][Next]_vars

\* ------------------------------------- search_metadata.filters_applied
\* the return statement of searchPatents, for any filters a request can carry
FilterInit ==
    /\ kwMatch = {}
    /\ SearchIdle
    /\ filters \in FilterValues /\ filtersApplied = <<>> /\ fpc = "idle"
    /\ BatchIdle /\ AuthIdle /\ RateIdle /\ RelatedIdle /\ RestIdle

ReturnFiltersApplied ==
    /\ fpc = "idle"
    /\ filtersApplied' = FiltersApplied(filters)
    /\ fpc' = "done"
    /\ UNCHANGED <<searchVars, exceptFilters, filters>>

FilterNext == ReturnFiltersApplied

SpecFilters == FilterInit /\ [][FilterNext]_vars

\* ------------------------------------------------ POST /api/search/batch
\* The handler parses the body, starts one searchPatents call per query
\* (hybrid, limit 10) and awaits Promise.all over the wrapped promises.  A
\* call is taken by its outcome: it resolves with a SearchResponse or rejects.
BatchInit ==
    /\ kwMatch = {}
    /\ SearchIdle
    /\ FiltersIdle
    /\ BatchIdle /\ AuthIdle /\ RateIdle /\ RelatedIdle /\ RestIdle

\* the schema accepts the body: queries.map starts every search
BatchStart(queries) ==
    /\ bpc = "idle" /\ Len(queries) >= 1
    /\ batchQueries' = queries
    /\ batchSearch' = [i \in 1..Len(queries) |-> "pending"]
    /\ batchEntries' = [i \in 1..Len(queries) |-> NoEntry]
    /\ bpc' = "await"
    /\ UNCHANGED <<searchVars, exceptBatch, batchResponse>>

\* the schema rejects the body: createValidationError is thrown
BatchInvalid(queries) ==
    /\ bpc = "idle" /\ Len(queries) = 0
    /\ bpc' = "error"
    /\ UNCHANGED <<searchVars, exceptBatch, batchQueries, batchSearch, batchEntries,
                   batchResponse>>

\* searchPatents of query i resolves: the callback returns the success entry
QuerySearchResolve(i) ==
    /\ bpc = "await" /\ batchSearch[i] = "pending"
    /\ batchSearch' = [batchSearch EXCEPT ![i] = "resolved"]
    /\ batchEntries' = [batchEntries EXCEPT ![i] = SuccessEntry(batchQueries[i], i - 1)]
    /\ UNCHANGED <<searchVars, exceptBatch, batchQueries, batchResponse, bpc>>

\* a rejected search left uncaught: Promise.all rejects and the handler throws
QuerySearchRejectUncaught(i) ==
    /\ bpc = "await" /\ batchSearch[i] = "pending"
    /\ batchSearch' = [batchSearch EXCEPT ![i] = "rejected"]
    /\ bpc' = "error"
    /\ UNCHANGED <<searchVars, exceptBatch, batchQueries, batchEntries, batchResponse>>

\* searchPatents of query i rejects: the catch block of the callback returns
\* the failure entry
QuerySearchReject(i) ==
    /\ bpc = "await" /\ batchSearch[i] = "pending"
    /\ batchSearch' = [batchSearch EXCEPT ![i] = "rejected"]
    /\ batchEntries' = [batchEntries EXCEPT ![i] = FailureEntry(batchQueries[i], i - 1)]
    /\ UNCHANGED <<searchVars, exceptBatch, batchQueries, batchResponse, bpc>>

\* Promise.all resolves once every callback has returned; res.json follows
BatchRespond ==
    /\ bpc = "await"
    /\ \A i \in 1..Len(batchQueries) : batchSearch[i] # "pending"
    /\ batchResponse' = [results |-> batchEntries,
                         total_queries |-> Len(batchQueries),
                         successful_queries |-> CountSuccess(batchEntries)]
    /\ bpc' = "done"
    /\ UNCHANGED <<searchVars, exceptBatch, batchQueries, batchSearch, batchEntries>>

BatchNext ==
    \/ \E queries \in QueryArrays : BatchStart(queries) \/ BatchInvalid(queries)
    \/ \E i \in 1..MaxQueries :
          /\ i <= Len(batchQueries)
          /\ (QuerySearchResolve(i) \/ QuerySearchReject(i))
    \/ BatchRespond

SpecBatch == BatchInit /\ [][BatchNext]_vars

\* --------------------------------------------- authMiddleware and routes
\* index.ts mounts healthRoutes without authentication and authMiddleware in
\* front of the search and analytics routers.
Routes == {"/api/search", "/api/analytics", "/api/health"}
ProtectedRoutes == {"/api/search", "/api/analytics"}

\* req.headers.authorization: absent, another scheme, 'Bearer ' followed by
\* nothing, 'Bearer ' followed by a token
Tokens == {"t1", "t2"}
AuthHeaders == {"none", "Basic", "Bearer "} \cup {"Bearer " \o t : t \in Tokens}
StartsWithBearer(header) == header \in {"Bearer "} \cup {"Bearer " \o t : t \in Tokens}
\* authHeader.substring(7)
TokenOf(header) == IF header = "Bearer " THEN "" ELSE CHOOSE t \in Tokens : header = "Bearer " \o t

\* what a route handler can throw: a validation error, and failures of the
\* backends it calls
HandlerErrors ==
    {AppError({}, 400),
     [statusCode |-> 0, name |-> "Error", words |-> {"BigQuery"}],
     [statusCode |-> 0, name |-> "Error", words |-> {"Pinecone", "vector"}],
     [statusCode |-> 0, name |-> "Error", words |-> {}]}

AuthInit ==
    /\ kwMatch = {}
    /\ SearchIdle
    /\ FiltersIdle /\ BatchIdle /\ RateIdle /\ RelatedIdle /\ RestIdle
    /\ AuthIdle

\* a request arrives; app.use dispatches it by mount path
ReceiveRequest(route, header) ==
    /\ apc = "idle"
    /\ reqRoute' = route /\ reqHeader' = header
    /\ apc' = IF route \in ProtectedRoutes THEN "auth" ELSE "handler"
    /\ UNCHANGED <<searchVars, exceptAuth, reqUser, nextCalls, nextError, handlerRuns,
                   tokenVerified, resStatus>>

\* authMiddleware up to its await: a missing or foreign header and an empty
\* token go to next(createUnauthorizedError(..)), a token to verifyIdToken
AuthMiddleware ==
    /\ apc = "auth"
    /\ IF reqHeader = "none" \/ ~StartsWithBearer(reqHeader) \/ TokenOf(reqHeader) = ""
       THEN /\ nextCalls' = nextCalls + 1
            /\ nextError' = AppError({}, 401)
            /\ apc' = "errorHandler"
       ELSE /\ apc' = "verify"
            /\ UNCHANGED <<nextCalls, nextError>>
    /\ UNCHANGED <<searchVars, exceptAuth, reqRoute, reqHeader, reqUser, handlerRuns,
                   tokenVerified, resStatus>>

\* verifyIdToken resolves: req.user is set and next() called
VerifyResolve ==
    /\ apc = "verify"
    /\ reqUser' = TokenOf(reqHeader)
    /\ tokenVerified' = TRUE
    /\ nextCalls' = nextCalls + 1
    /\ apc' = "handler"
    /\ UNCHANGED <<searchVars, exceptAuth, reqRoute, reqHeader, nextError, handlerRuns,
                   resStatus>>

\* a rejected token let through, as optionalAuthMiddleware does
VerifyRejectIgnored ==
    /\ apc = "verify"
    /\ nextCalls' = nextCalls + 1
    /\ apc' = "handler"
    /\ UNCHANGED <<searchVars, exceptAuth, reqRoute, reqHeader, reqUser, nextError,
                   handlerRuns, tokenVerified, resStatus>>

\* verifyIdToken rejects: every branch of the catch block hands a
\* createUnauthorizedError to next
VerifyReject ==
    /\ apc = "verify"
    /\ nextCalls' = nextCalls + 1
    /\ nextError' = AppError({}, 401)
    /\ apc' = "errorHandler"
    /\ UNCHANGED <<searchVars, exceptAuth, reqRoute, reqHeader, reqUser, handlerRuns,
                   tokenVerified, resStatus>>

\* the route handler runs and answers
HandlerRespond ==
    /\ apc = "handler"
    /\ handlerRuns' = handlerRuns + 1
    /\ resStatus' = 200
    /\ apc' = "responded"
    /\ UNCHANGED <<searchVars, exceptAuth, reqRoute, reqHeader, reqUser, nextCalls,
                   nextError, tokenVerified>>

\* the route handler runs and throws: asyncHandler hands the error to next
HandlerThrow ==
    /\ apc = "handler"
    /\ handlerRuns' = handlerRuns + 1
    /\ nextError' \in HandlerErrors
    /\ apc' = "errorHandler"
    /\ UNCHANGED <<searchVars, exceptAuth, reqRoute, reqHeader, reqUser, nextCalls,
                   tokenVerified, resStatus>>

\* errorHandler answers with the status it derives from the error
ErrorHandlerRespond ==
    /\ apc = "errorHandler"
    /\ resStatus' = ErrorStatus(nextError)
    /\ apc' = "responded"
    /\ UNCHANGED <<searchVars, exceptAuth, reqRoute, reqHeader, reqUser, nextCalls,
                   nextError, handlerRuns, tokenVerified>>

AuthNext ==
    \/ \E route \in Routes, header \in AuthHeaders : ReceiveRequest(route, header)
    \/ AuthMiddleware
    \/ VerifyResolve \/ VerifyReject
    \/ HandlerRespond \/ HandlerThrow
    \/ ErrorHandlerRespond

SpecAuth == AuthInit /\ [][AuthNext]_vars

\* ------------------------------------------------------- errorHandler
\* errorHandler applied to the errors a route can hand to next: any
\* statusCode a thrower sets (0 when it sets none), any name, and a message
\* holding up to two of the substrings the handler looks for.
WordSets == {w \in SUBSET MessageWords : Cardinality(w) <= 2}
StatusCodes == {0, 400, 401, 404, 503}
RaisedErrors ==
    {[statusCode |-> c, name |-> n, words |-> w] :
        c \in StatusCodes, n \in ErrorNames, w \in WordSets}

\* an authenticated request whose handler has thrown
ErrorInit ==
    /\ kwMatch = {}
    /\ SearchIdle
    /\ FiltersIdle /\ BatchIdle /\ RateIdle /\ RelatedIdle /\ RestIdle
    /\ reqRoute = "/api/search" /\ reqHeader \in {"Bearer " \o t : t \in Tokens}
    /\ reqUser = TokenOf(reqHeader)
    /\ apc = "errorHandler"
    /\ nextCalls = 1 /\ handlerRuns = 1 /\ tokenVerified = TRUE /\ resStatus = 0
    /\ nextError \in RaisedErrors

ErrorNext == ErrorHandlerRespond

SpecErrors == ErrorInit /\ [][ErrorNext]_vars

\* ------------------------------------------- filters in the retrievals
RetrievalInit ==
    /\ kwMatch = {}
    /\ SearchIdle
    /\ FirstIdle /\ IndexIdle /\ LandIdle
    /\ qFilters \in QueryFilterValues /\ qService \in {"part_001", "part_002"}
    /\ qLimit = 0 /\ qpc = "idle" /\ qPath = "none" /\ qMatches = {} /\ qRows = {}

\* performKeywordSearch(query, filters, limit)
PerformKeywordSearch(lim) ==
    /\ qpc = "idle"
    /\ qLimit' = lim /\ qpc' = "keyword"
    /\ UNCHANGED <<qFilters, qService, qPath, qMatches, qRows>>
    /\ UNCHANGED <<searchVars, exceptQuery>>

\* searchPatentsByKeywords: the warehouse answers the built query
KeywordRowsResolve(rows) ==
    /\ qpc = "keyword"
    /\ rows \in Limited(KeywordWhere(qFilters, qService), qLimit)
    /\ qRows' = rows /\ qPath' = "keyword" /\ qpc' = "done"
    /\ UNCHANGED <<qFilters, qService, qLimit, qMatches>>
    /\ UNCHANGED <<searchVars, exceptQuery>>

KeywordRowsReject ==
    /\ qpc = "keyword"
    /\ qpc' = "error"
    /\ UNCHANGED <<qFilters, qService, qLimit, qPath, qMatches, qRows>>
    /\ UNCHANGED <<searchVars, exceptQuery>>

\* performSemanticSearch(query, limit, filters, minSimilarity)
PerformSemanticSearch(lim) ==
    /\ qpc = "idle"
    /\ qLimit' = lim /\ qpc' = "vector"
    /\ UNCHANGED <<qFilters, qService, qPath, qMatches, qRows>>
    /\ UNCHANGED <<searchVars, exceptQuery>>

\* semanticPatentSearch(query, limit * 2) resolves with matches that pass the
\* similarity threshold: no filter is handed to the index.  Without any
\* the keyword search takes over.
VectorMatchesResolve(ids) ==
    /\ qpc = "vector"
    /\ Cardinality(ids) <= 2 * qLimit
    /\ qMatches' = ids
    /\ qpc' = IF ids = {} THEN "keyword" ELSE "enrich"
    /\ UNCHANGED <<qFilters, qService, qLimit, qPath, qRows>>
    /\ UNCHANGED <<searchVars, exceptQuery>>

\* the catch block of performSemanticSearch
VectorMatchesReject ==
    /\ qpc = "vector"
    /\ qpc' = "keyword"
    /\ UNCHANGED <<qFilters, qService, qLimit, qPath, qMatches, qRows>>
    /\ UNCHANGED <<searchVars, exceptQuery>>

\* getPatentsByIds(patentIds) resolves; mergeSimilarityScores, slice(0, limit)
PatentsByIdsResolve(rows) ==
    /\ qpc = "enrich"
    /\ rows \in Limited(PatentIdWhere(qMatches), qLimit)
    /\ qRows' = rows /\ qPath' = "vector" /\ qpc' = "done"
    /\ UNCHANGED <<qFilters, qService, qLimit, qMatches>>
    /\ UNCHANGED <<searchVars, exceptQuery>>

\* the catch block again; filteredResults is out of scope there
PatentsByIdsReject ==
    /\ qpc = "enrich"
    /\ qpc' = "keyword" /\ qMatches' = {}
    /\ UNCHANGED <<qFilters, qService, qLimit, qPath, qRows>>
    /\ UNCHANGED <<searchVars, exceptQuery>>

RetrievalNext ==
    \/ \E lim \in 1..MaxFetch : PerformKeywordSearch(lim)
    \/ \E rows \in SUBSET Corpus : KeywordRowsResolve(rows)
    \/ KeywordRowsReject
    \/ \E lim \in 1..MaxFetch : PerformSemanticSearch(lim)
    \/ \E ids \in SUBSET CorpusIds : VectorMatchesResolve(ids)
    \/ VectorMatchesReject
    \/ \E rows \in SUBSET Corpus : PatentsByIdsResolve(rows)
    \/ PatentsByIdsReject

SpecRetrieval == RetrievalInit /\ [][RetrievalNext]_vars

\* ------------------------------------------------------ bulk indexing
\* Records come from transformBigQueryResults, which fills an empty title or
\* abstract with a placeholder text, so the test for an empty patentText
\* never skips a record of the job.
IndexInit ==
    /\ kwMatch = {}
    /\ SearchIdle
    /\ FirstIdle /\ QueryIdle /\ LandIdle
    /\ corpusSize \in 0..MaxCorpus
    /\ batchSize = 0 /\ ipc = "idle"
    /\ offset = 0 /\ totalIndexed = 0 /\ totalErrors = 0 /\ fetches = 0
    /\ patentBatch = <<>> /\ position = 0 /\ vectors = <<>> /\ upserted = 0
    /\ passed = [id \in 1..MaxCorpus |-> 0]

\* the call, up to the first fetch
IndexPatentsForSemanticSearch(size) ==
    /\ ipc = "idle"
    /\ batchSize' = size /\ ipc' = "fetch"
    /\ UNCHANGED <<corpusSize, offset, totalIndexed, totalErrors, fetches,
                   patentBatch, position, vectors, upserted, passed>>
    /\ UNCHANGED <<searchVars, exceptIndex>>

\* the fetch resolves: an empty batch ends the loop, any other is passed to
\* indexPatentEmbeddings, which starts on its first record
FetchResolve ==
    /\ ipc = "fetch"
    /\ fetches' = fetches + 1
    /\ LET rows == FetchedBatch(corpusSize, batchSize) IN
         IF Len(rows) = 0
         THEN /\ ipc' = "done"
              /\ UNCHANGED <<patentBatch, position, vectors, passed>>
         ELSE /\ ipc' = "embed"
              /\ patentBatch' = rows /\ position' = 0 /\ vectors' = <<>>
              /\ passed' = [id \in 1..MaxCorpus |->
                               IF id <= Len(rows) THEN passed[id] + 1 ELSE passed[id]]
    /\ UNCHANGED <<corpusSize, batchSize, offset, totalIndexed, totalErrors, upserted>>
    /\ UNCHANGED <<searchVars, exceptIndex>>

\* the fetch rejects: the outer catch rethrows
FetchReject ==
    /\ ipc = "fetch"
    /\ ipc' = "error"
    /\ UNCHANGED <<corpusSize, batchSize, offset, totalIndexed, totalErrors,
                   fetches, patentBatch, position, vectors, upserted, passed>>
    /\ UNCHANGED <<searchVars, exceptIndex>>

\* back in the job after indexPatentEmbeddings settled: count the batch, move
\* offset, test the safety limit
BatchSettled(resolved) ==
    /\ totalIndexed' = IF resolved THEN totalIndexed + Len(patentBatch) ELSE totalIndexed
    /\ totalErrors' = IF resolved THEN totalErrors ELSE totalErrors + Len(patentBatch)
    /\ offset' = offset + batchSize
    /\ ipc' = IF ReachedSafetyLimit(offset + batchSize) THEN "done" ELSE "fetch"

\* indexPatentEmbeddings after a record: at the end of a slice of UpsertBatch
\* records the prepared vectors are upserted, if there are any
RecordDone(pos, vecs) ==
    /\ position' = pos
    /\ IF pos % UpsertBatch = 0 \/ pos = Len(patentBatch)
       THEN IF Len(vecs) > 0
            THEN /\ ipc' = "upsert" /\ vectors' = vecs
                 /\ UNCHANGED <<offset, totalIndexed, totalErrors>>
            ELSE /\ vectors' = <<>>
                 /\ IF pos = Len(patentBatch)
                    THEN BatchSettled(TRUE)
                    ELSE /\ ipc' = "embed"
                         /\ UNCHANGED <<offset, totalIndexed, totalErrors>>
       ELSE /\ ipc' = "embed" /\ vectors' = vecs
            /\ UNCHANGED <<offset, totalIndexed, totalErrors>>

\* generateEmbedding resolves for the record in turn
EmbedResolve ==
    /\ ipc = "embed"
    /\ RecordDone(position + 1, Append(vectors, patentBatch[position + 1]))
    /\ UNCHANGED <<corpusSize, batchSize, fetches, patentBatch, upserted, passed>>
    /\ UNCHANGED <<searchVars, exceptIndex>>

\* generateEmbedding rejects: the inner catch logs and goes on
EmbedReject ==
    /\ ipc = "embed"
    /\ RecordDone(position + 1, vectors)
    /\ UNCHANGED <<corpusSize, batchSize, fetches, patentBatch, upserted, passed>>
    /\ UNCHANGED <<searchVars, exceptIndex>>

\* index.upsert(vectors) resolves
UpsertResolve ==
    /\ ipc = "upsert"
    /\ upserted' = upserted + Len(vectors)
    /\ vectors' = <<>>
    /\ IF position = Len(patentBatch)
       THEN BatchSettled(TRUE)
       ELSE /\ ipc' = "embed"
            /\ UNCHANGED <<offset, totalIndexed, totalErrors>>
    /\ UNCHANGED <<corpusSize, batchSize, fetches, patentBatch, position, passed>>
    /\ UNCHANGED <<searchVars, exceptIndex>>

\* index.upsert(vectors) rejects: indexPatentEmbeddings throws 'Indexing
\* failed', the job's inner catch counts the whole fetched batch as errors
UpsertReject ==
    /\ ipc = "upsert"
    /\ vectors' = <<>>
    /\ BatchSettled(FALSE)
    /\ UNCHANGED <<corpusSize, batchSize, fetches, patentBatch, position, upserted, passed>>
    /\ UNCHANGED <<searchVars, exceptIndex>>

IndexNext ==
    \/ \E size \in 1..MaxBatchSize : IndexPatentsForSemanticSearch(size)
    \/ FetchResolve
    \/ FetchReject
    \/ EmbedResolve
    \/ EmbedReject
    \/ UpsertResolve
    \/ UpsertReject

SpecIndex == IndexInit /\ [][IndexNext]_vars

\* every backend call of the job returns
BackendCallsReturn == WF_vars(IndexNext)

LiveSpecIndex == IndexInit /\ [][IndexNext]_vars /\ BackendCallsReturn

\* ------------------------------------------------- buildCitationNetwork
\* The sample of the hybrid search and the citation data of the warehouse
\* are fixed; generatePatentLandscape is run up to twice over them.
LandscapeInit ==
    /\ kwMatch = {}
    /\ SearchIdle
    /\ FirstIdle /\ QueryIdle /\ IndexIdle
    /\ samplePatents \in {[i \in 1..n |-> i] : n \in 0..MaxSample}
    /\ citationData \in SUBSET VisitedPairs(samplePatents)
    /\ networks = <<>>

\* one run: nodes from the sample, edges from the random draws; no citation
\* lookup is made
GeneratePatentLandscape(edges) ==
    /\ Len(networks) < 2
    /\ edges \in EdgeSets(samplePatents)
    /\ networks' = Append(networks, [nodes |-> samplePatents, edges |-> edges])
    /\ UNCHANGED <<samplePatents, citationData>>
    /\ UNCHANGED <<searchVars, exceptLand>>

LandscapeNext ==
    \E edges \in EdgeSets(samplePatents) : GeneratePatentLandscape(edges)

SpecLandscape == LandscapeInit /\ [][LandscapeNext]_vars

\* --------------------------------------------------- getRelatedPatents
RelatedInit ==
    /\ kwMatch = {}
    /\ SearchIdle
    /\ FiltersIdle /\ BatchIdle /\ AuthIdle /\ RateIdle /\ RestIdle
    /\ RelatedIdle

\* the call, up to its first await
GetRelatedPatents(id) ==
    /\ rpc = "idle"
    /\ patentId' = id
    /\ rpc' = "citations"
    /\ UNCHANGED <<citations, originalPatents, semanticFound, related, thrown>>
    /\ UNCHANGED <<searchVars, exceptRelated>>

\* getPatentCitations resolves; getPatentsByIds([patentId]) is issued
CitationsResolve(citing, cited) ==
    /\ rpc = "citations"
    /\ citations' = [citing |-> citing, cited |-> cited]
    /\ rpc' = "original"
    /\ UNCHANGED <<patentId, originalPatents, semanticFound, related, thrown>>
    /\ UNCHANGED <<searchVars, exceptRelated>>

CitationsReject ==
    /\ rpc = "citations"
    /\ rpc' = "error" /\ thrown' = "getPatentCitations"
    /\ UNCHANGED <<patentId, citations, originalPatents, semanticFound, related>>
    /\ UNCHANGED <<searchVars, exceptRelated>>

\* getPatentsByIds resolves with the rows whose publication_number is patentId
OriginalResolve(rows) ==
    /\ rpc = "original"
    /\ originalPatents' = rows
    /\ IF Len(rows) > 0
       THEN /\ rpc' = "similar"
            /\ UNCHANGED related
       ELSE /\ rpc' = "done"
            /\ related' = [citing |-> citations.citing, cited |-> citations.cited,
                           similar |-> Slice(<<>>, SimilarCap)]
    /\ UNCHANGED <<patentId, citations, semanticFound, thrown>>
    /\ UNCHANGED <<searchVars, exceptRelated>>

OriginalReject ==
    /\ rpc = "original"
    /\ rpc' = "error" /\ thrown' = "getPatentsByIds"
    /\ UNCHANGED <<patentId, citations, originalPatents, semanticFound, related>>
    /\ UNCHANGED <<searchVars, exceptRelated>>

\* the original is left in the similar list
SimilarResolveKeepsOriginal(found) ==
    /\ rpc = "similar"
    /\ semanticFound' = found
    /\ related' = [citing |-> citations.citing, cited |-> citations.cited,
                   similar |-> Slice(found, SimilarCap)]
    /\ rpc' = "done"
    /\ UNCHANGED <<patentId, citations, originalPatents, thrown>>
    /\ UNCHANGED <<searchVars, exceptRelated>>

\* performSemanticSearch resolves: filter, slice, return
SimilarResolve(found) ==
    /\ rpc = "similar"
    /\ semanticFound' = found
    /\ related' = [citing |-> citations.citing, cited |-> citations.cited,
                   similar |-> Slice(RemoveOriginal(found, patentId), SimilarCap)]
    /\ rpc' = "done"
    /\ UNCHANGED <<patentId, citations, originalPatents, thrown>>
    /\ UNCHANGED <<searchVars, exceptRelated>>

SimilarReject ==
    /\ rpc = "similar"
    /\ rpc' = "error" /\ thrown' = "performSemanticSearch"
    /\ UNCHANGED <<patentId, citations, originalPatents, semanticFound, related>>
    /\ UNCHANGED <<searchVars, exceptRelated>>

RelatedNext ==
    \/ \E id \in RelatedIds : GetRelatedPatents(id)
    \/ \E citing \in CitationLists, cited \in CitationLists : CitationsResolve(citing, cited)
    \/ CitationsReject
    \/ \E rows \in {<<>>, <<patentId>>} : OriginalResolve(rows)
    \/ OriginalReject
    \/ \E found \in SemanticLists : SimilarResolve(found)
    \/ SimilarReject

SpecRelated == RelatedInit /\ [][RelatedNext]_vars

\* ------------------------------------------------- createUserRateLimit
RateInit ==
    /\ kwMatch = {}
    /\ SearchIdle
    /\ FiltersIdle /\ BatchIdle /\ AuthIdle /\ RelatedIdle /\ RestIdle
    /\ maxRequests \in 0..MaxRequestsArg /\ windowMs \in 1..MaxWindowMs
    /\ userRequests = NoUserRequests
    /\ now = 0 /\ admitted = [u \in Users |-> 0] /\ lastAnswer = "none"

\* time passes between requests
Tick ==
    /\ now < MaxNow
    /\ now' = now + 1
    /\ UNCHANGED <<searchVars, exceptRate, maxRequests, windowMs, userRequests, admitted,
                   lastAnswer>>

\* a request without req.user
RateLimitAnonymous ==
    /\ lastAnswer' = "401"
    /\ UNCHANGED <<searchVars, exceptRate, maxRequests, windowMs, userRequests, now,
                   admitted>>

\* a request of user userId
RateLimitRequest(userId) ==
    LET userRequest == userRequests[userId] IN
    /\ IF ~userRequest.present \/ now > userRequest.resetTime
       THEN /\ userRequests' = [userRequests EXCEPT ![userId] =
                                   [present |-> TRUE, count |-> 1,
                                    resetTime |-> now + windowMs]]
            /\ admitted' = [admitted EXCEPT ![userId] = 1]
            /\ lastAnswer' = "next"
       ELSE IF userRequest.count >= maxRequests
       THEN /\ lastAnswer' = "429"
            /\ UNCHANGED <<userRequests, admitted>>
       ELSE /\ userRequests' = [userRequests EXCEPT ![userId].count = @ + 1]
            /\ admitted' = [admitted EXCEPT ![userId] = @ + 1]
            /\ lastAnswer' = "next"
    /\ UNCHANGED <<searchVars, exceptRate, maxRequests, windowMs, now>>

RateNext ==
    \/ Tick
    \/ RateLimitAnonymous
    \/ \E userId \in Users : RateLimitRequest(userId)

SpecRate == RateInit /\ [][RateNext]_vars

TypeOK ==
    /\ settled \in UNION {[1..n -> {"semantic", "keyword"}] : n \in 0..2}
    /\ Len(samplePatents) <= MaxSample
    /\ citationData \subseteq VisitedPairs(samplePatents)
    /\ Len(networks) <= 2
    /\ \A r \in 1..Len(networks) : networks[r].nodes = samplePatents
    /\ corpusSize \in 0..MaxCorpus
    /\ batchSize \in 0..MaxBatchSize
    /\ ipc \in {"idle", "fetch", "embed", "upsert", "done", "error"}
    /\ offset \in Nat /\ totalIndexed \in Nat /\ totalErrors \in Nat
    /\ fetches \in Nat /\ upserted \in Nat
    /\ position \in 0..Len(patentBatch)
    /\ Len(vectors) <= UpsertBatch
    /\ passed \in [1..MaxCorpus -> Nat]
    /\ qFilters \in QueryFilterValues
    /\ qService \in {"none", "part_001", "part_002"}
    /\ qLimit \in 0..MaxFetch
    /\ qpc \in {"idle", "keyword", "vector", "enrich", "done", "error"}
    /\ qPath \in {"none", "keyword", "vector"}
    /\ qMatches \subseteq CorpusIds
    /\ qRows \subseteq Corpus /\ Cardinality(qRows) <= qLimit
    /\ patentId \in RelatedIds \cup {0}
    /\ rpc \in {"idle", "citations", "original", "similar", "done", "error"}
    /\ citations \in [citing : CitationLists, cited : CitationLists]
    /\ originalPatents \in {<<>>, <<patentId>>}
    /\ semanticFound \in SemanticLists
    /\ Len(related.similar) <= Len(semanticFound)
    /\ thrown \in {"none", "getPatentCitations", "getPatentsByIds", "performSemanticSearch"}
    /\ mode \in SearchTypes \cup {"none"}
    /\ pc \in {"idle", "search", "tokens", "done", "error"}
    /\ spc \in {"idle", "embed", "query", "enrich", "fallback", "catch", "done", "rejected"}
    /\ kpc \in {"idle", "call", "done", "rejected"}
    /\ hpc \in {"idle", "await", "done", "rejected"}
    /\ semPath \in {"none", "vector", "empty", "catch"}
    /\ hybridPath \in {"none", "combined", "fallback"}

\* ---------------------------------------------------------------- claims
Responded == pc = "done"
Adjacent(s) == {i \in 1..Len(s) : i < Len(s)}

\* C1: whenever searchPatents returns, in any mode and on any fallback path,
\* the response holds at most `limit` records.
LimitContract == Responded => Len(response.results) <= limit

\* the two branches of a hybrid search returned more distinct records than
\* the limit
Truncated ==
    /\ mode = "hybrid" /\ hybridPath = "combined"
    /\ IdsOf(semOut) \cap IdsOf(kwOut) = {}
    /\ Len(semOut) + Len(kwOut) > limit

\* a hybrid response cut down to exactly the limit
LimitContractWitness ==
    /\ Responded /\ Truncated
    /\ Len(response.results) = limit

\* C2: with the vector backend unreachable (no embedding or vector query call
\* of the request resolved), a semantic search returns the very list a keyword
\* search returns for the same query, filters and limit.
FallbackIdempotence ==
    (Responded /\ mode = "semantic" /\ ~vecSucceeded)
        => response.results = SubSeq(SearchPatentsByKeywords(limit), 1,
                                     Min(Len(SearchPatentsByKeywords(limit)), limit))

FallbackIdempotenceWitness ==
    /\ Responded /\ mode = "semantic" /\ ~vecSucceeded /\ semSearchFailed
    /\ Len(response.results) >= 2
    /\ Cardinality(kwMatch) > limit

\* C3: a hybrid response lists no patent id twice, and a record whose id both
\* branches returned carries the semantic branch's score times 1.2.
HybridDedup ==
    (Responded /\ mode = "hybrid") =>
        /\ \A i, j \in 1..Len(response.results) :
              response.results[i].patent_id = response.results[j].patent_id => i = j
        /\ hybridPath = "combined" =>
              \A i \in 1..Len(response.results), j \in 1..Len(semOut) :
                  (/\ response.results[i].patent_id = semOut[j].patent_id
                   /\ response.results[i].patent_id \in IdsOf(kwOut))
                     => response.results[i].similarity_score * 10
                            = semOut[j].similarity_score * 12

\* a returned record that both branches found, vector-scored above 0
HybridDedupWitness ==
    /\ Responded /\ mode = "hybrid" /\ hybridPath = "combined"
    /\ \E i \in 1..Len(response.results) :
          /\ response.results[i].patent_id \in IdsOf(semOut) \cap IdsOf(kwOut)
          /\ response.results[i].similarity_score > 0

SimilarityThreshold ==
    (Responded /\ mode = "semantic" /\ semPath = "vector") =>
        \A i \in 1..Len(response.results) :
            response.results[i].similarity_score >= minSimilarity

SimilarityThresholdWitness ==
    /\ Responded /\ mode = "semantic" /\ semPath = "vector"
    /\ minSimilarity > 0
    /\ Len(response.results) >= 2

\* C6: a returned record has similarity_score 0 exactly when it came from
\* lexical retrieval only: keyword results carry 0, records admitted through
\* the vector path carry a score above 0.
VectorRanked(id) ==
    /\ mode \in {"semantic", "hybrid"}
    /\ semPath = "vector"
    /\ hybridPath # "fallback"
    /\ id \in IdsOf(semOut)

ZeroScoreIsLexicalTag ==
    Responded =>
        \A i \in 1..Len(response.results) :
            response.results[i].similarity_score = 0
                <=> ~VectorRanked(response.results[i].patent_id)

\* C7: a semantic search never answers with an empty list when the keyword
\* search for the same query, filters and limit has records to return.
SemanticNeverSilentlyEmpty ==
    (Responded /\ mode = "semantic" /\ SearchPatentsByKeywords(limit) # <<>>)
        => response.results # <<>>

\* C8: in semantic mode a rejection of the embedding call or of the vector
\* query never reaches the caller while the keyword search works: the request
\* fails only after a keyword search failed, and otherwise answers with the
\* keyword results.
SoftFailureAbsorbed ==
    (mode = "semantic" /\ semSearchFailed) =>
        /\ pc = "error" => (kwFailed /\ spc = "rejected")
        /\ pc \in {"tokens", "done"} =>
              /\ semPath = "catch"
              /\ results = SearchPatentsByKeywords(limit)
        /\ Responded =>
              response.results = SubSeq(SearchPatentsByKeywords(limit), 1,
                                        Min(Len(SearchPatentsByKeywords(limit)), limit))

\* the embedding resolved, the vector query rejected, and the caller got the
\* keyword results
SoftFailureAbsorbedWitness ==
    /\ Responded /\ mode = "semantic" /\ semSearchFailed /\ vecSucceeded
    /\ ~kwFailed
    /\ response.results # <<>>

\* C9: when the awaited pair of hybrid branches rejects, the request answers
\* with the keyword search run with the full limit, and it fails only if that
\* keyword search fails too.
HybridPairFallback ==
    mode = "hybrid" =>
        /\ hybridPath = "combined" => (spc = "done" /\ kpc = "done")
        /\ (hybridPath = "fallback" /\ pc \in {"tokens", "done"}) =>
              results = SearchPatentsByKeywords(limit)
        /\ (hybridPath = "fallback" /\ Responded) =>
              response.results = SubSeq(SearchPatentsByKeywords(limit), 1,
                                        Min(Len(SearchPatentsByKeywords(limit)), limit))
        /\ pc = "error" => (hybridPath = "fallback" /\ hpc = "rejected" /\ kwFailed)
        /\ (pc = "search" /\ hpc = "await") => hybridPath = "none"

\* the keyword branch rejected and the fallback returned more records than
\* the keyword branch had asked for
HybridPairFallbackWitness ==
    /\ Responded /\ mode = "hybrid" /\ hybridPath = "fallback"
    /\ kpc = "rejected"
    /\ Len(response.results) = limit
    /\ limit > FloorHalf(limit)

MetadataCountsByScore ==
    Responded =>
        /\ response.semantic_results = CountPositive(response.results)
        /\ response.keyword_results = CountZero(response.results)

\* C12: query_tokens is the token count of the embedding call the search
\* itself made, and 0 when the search made none (keyword mode) or when that
\* call rejected.
QueryTokensOfServingEmbedding ==
    Responded => response.query_tokens = servedTokens

\* C13: filters_applied lists exactly the filter fields that are non-empty in
\* the request; an absent field, an empty list and a date range with neither
\* start nor end are not listed.
NonEmptyField(f, name) ==
    /\ f.defined /\ f[name].defined
    /\ IF name = "dateRange"
       THEN f[name].start # Undefined \/ f[name].end # Undefined
       ELSE f[name].items # <<>>

FiltersAppliedAreNonEmpty ==
    fpc = "done" =>
        {filtersApplied[i] : i \in 1..Len(filtersApplied)}
            = {FilterNames[i] : i \in {j \in 1..Len(FilterNames) :
                                          NonEmptyField(filters, FilterNames[j])}}

\* C14: every record of every response carries a similarity_score within
\* [0, 1] (0..100 in hundredths), the vector backend reporting scores within
\* that range.
ScoreWithinUnitRange ==
    Responded =>
        \A i \in 1..Len(response.results) :
            /\ response.results[i].similarity_score >= 0
            /\ response.results[i].similarity_score <= 100

\* C15: every search request eventually completes, with a response or an
\* error, even when a backend call never returns.
RequestCompletes == (pc = "search") ~> (pc \in {"done", "error"})

\* C16: a batch answers with one entry per submitted query, entry i telling
\* the outcome of query i's own search only; a failed search never fails the
\* request, an entry once written is never altered, and successful_queries
\* counts the entries with success = TRUE.
BatchEntriesMatch ==
    /\ bpc = "error" => batchQueries = <<>>
    /\ bpc \in {"await", "done"} =>
          \A i \in 1..Len(batchQueries) :
              /\ batchSearch[i] = "pending" => batchEntries[i] = NoEntry
              /\ batchSearch[i] = "resolved" =>
                    batchEntries[i] = SuccessEntry(batchQueries[i], i - 1)
              /\ batchSearch[i] = "rejected" =>
                    batchEntries[i] = FailureEntry(batchQueries[i], i - 1)
    /\ bpc = "done" =>
          /\ batchResponse.results = batchEntries
          /\ Len(batchResponse.results) = Len(batchQueries)
          /\ batchResponse.total_queries = Len(batchQueries)
          /\ batchResponse.successful_queries
                = Cardinality({i \in 1..Len(batchQueries) : batchSearch[i] = "resolved"})

BatchIndependence ==
    /\ []BatchEntriesMatch
    /\ [][\A i \in 1..Len(batchEntries) :
              batchEntries[i] # NoEntry => batchEntries'[i] = batchEntries[i]]_vars

\* a batch answered with a failed entry between two successful ones
BatchIndependenceWitness ==
    /\ bpc = "done" /\ Len(batchQueries) = 3
    /\ batchResponse.results[1].success
    /\ ~batchResponse.results[2].success
    /\ batchResponse.results[3].success
    /\ batchResponse.successful_queries = 2

\* C17: on a protected route the handler runs only after the request's
\* token was verified; a request whose header is missing or malformed or whose
\* token is rejected is answered 401 without the handler running; and
\* authMiddleware calls next exactly once per request.
AuthGate ==
    /\ (reqRoute \in ProtectedRoutes /\ handlerRuns > 0) => tokenVerified
    /\ (reqRoute \in ProtectedRoutes /\ apc = "responded" /\ ~tokenVerified) =>
          (resStatus = 401 /\ handlerRuns = 0)
    /\ nextCalls <= 1
    /\ (reqRoute \in ProtectedRoutes /\ apc \in {"handler", "errorHandler", "responded"})
          => nextCalls = 1
    /\ handlerRuns <= 1

\* a request to a protected route whose token verifyIdToken rejected
AuthGateWitness ==
    /\ apc = "responded" /\ reqRoute = "/api/search"
    /\ StartsWithBearer(reqHeader) /\ TokenOf(reqHeader) # ""
    /\ ~tokenVerified /\ resStatus = 401 /\ nextCalls = 1

\* C18: for each user at most maxRequests requests are admitted between a
\* window's start and its resetTime.
AdmitsAtMostMaxRequests == \A u \in Users : admitted[u] <= maxRequests

\* C19: an error raised as a client error (an AppError of status 400, 401 or
\* 404) is answered with that status, and a failure thrown by a backend
\* client (an Error without statusCode) with a 5xx status, whatever the text
\* of the message.
RaisedAsClientError(err) == err.name = "Error" /\ err.statusCode \in {400, 401, 404}
RaisedByBackend(err) == err.name = "Error" /\ err.statusCode = 0

StatusFollowsErrorKind ==
    apc = "responded" =>
        /\ RaisedAsClientError(nextError) => resStatus = nextError.statusCode
        /\ RaisedByBackend(nextError) => resStatus >= 500

\* C20: a returned `similar` list never holds the record whose id is the
\* source id and has at most 10 entries; when the fetch of the source record
\* resolves with no record, `similar` is empty and citing and cited are the
\* lists the citation lookup resolved with.
InSeq(x, s) == \E i \in 1..Len(s) : s[i] = x

SimilarExcludesOriginal ==
    rpc = "done" =>
        /\ ~InSeq(patentId, related.similar)
        /\ Len(related.similar) <= SimilarCap
        /\ related.citing = citations.citing
        /\ related.cited = citations.cited
        /\ originalPatents = <<>> => related.similar = <<>>

\* the original was among more than SimilarCap other records found
SimilarExcludesOriginalWitness ==
    /\ rpc = "done"
    /\ InSeq(patentId, semanticFound)
    /\ Len(semanticFound) > SimilarCap + 1
    /\ Len(related.similar) = SimilarCap
    /\ related.citing # <<>>

\* C20 as stated: whenever the source record cannot be fetched, the fetch
\* rejecting included, the call still returns citing, cited and an empty
\* `similar`.
ReturnsWithoutOriginal ==
    /\ SimilarExcludesOriginal
    /\ thrown # "getPatentsByIds"

\* what the filters of a request ask of a record: each field that is present
\* and not empty is one more AND condition
InDateRange(row, range) ==
    /\ TruthyString(range.start) => row.publication_date >= DateNumber(range.start)
    /\ TruthyString(range.end) => row.publication_date <= DateNumber(range.end)

SatisfiesFilters(row, f) ==
    f.defined =>
        /\ f.dateRange.defined => InDateRange(row, f.dateRange)
        /\ Len(f.countries.items) > 0 => row.country_code \in ItemsOf(f.countries)
        /\ Len(f.assignees.items) > 0 =>
              \E term \in ItemsOf(f.assignees) : LowerLike(row.assignee, term)
        /\ Len(f.classifications.items) > 0 =>
              \E prefix \in ItemsOf(f.classifications) : PrefixLike(row.classification, prefix)

\* C21: every record searchPatentsByKeywords returns satisfies every filter
\* of the request: date range, countries, assignees and classifications.
KeywordRowsSatisfyFilters ==
    (qpc = "done" /\ qPath = "keyword") =>
        \A row \in qRows : SatisfiesFilters(row, qFilters)

\* C30: every record a semantic search returns from the vector path
\* satisfies the filters of the request.
VectorRowsSatisfyFilters ==
    (qpc = "done" /\ qPath = "vector") =>
        \A row \in qRows : SatisfiesFilters(row, qFilters)

\* C22: in the summary {indexed, errors}, `indexed` is the number of records
\* actually upserted into the vector index.
IndexedCountsUpserts ==
    ipc = "done" => totalIndexed = upserted

\* C23: a failure on a record or on an upsert call does not abort the rest of
\* the fetched batch: when the job leaves a fetched batch, every record of
\* it has been processed, and the job does not throw for such a failure.
FailureLeavesRestAttempted ==
    (ipc \in {"fetch", "done"} /\ fetches > 0 /\ patentBatch # <<>>) =>
        position = Len(patentBatch)

\* C26: the job terminates when its backend calls return, after at most
\* floor(limit / batchSize) + 1 fetches.
FetchesWithinLimit ==
    batchSize >= 1 => fetches <= (SafetyLimit \div batchSize) + 1

IndexingTerminates ==
    /\ []FetchesWithinLimit
    /\ (ipc = "fetch") ~> (ipc \in {"done", "error"})

\* the warehouse answered every fetch with a batch and the limit stopped the job
IndexingTerminatesWitness ==
    /\ ipc = "done"
    /\ corpusSize > 0
    /\ fetches = (SafetyLimit \div batchSize) + 1
    /\ ReachedSafetyLimit(offset)

\* C29: no record is passed to indexPatentEmbeddings twice in a run, so
\* indexed + errors never exceeds the number of matching records.
BatchesAdvance ==
    /\ \A id \in 1..MaxCorpus : passed[id] <= 1
    /\ totalIndexed + totalErrors <= corpusSize

\* C24: every edge of a citationNetwork is a citation the warehouse holds,
\* or the network is flagged as a stub; two runs over the same backend
\* responses give the same edges.
FlaggedAsStub(network) == "stub" \in DOMAIN network

EdgesAreRealCitations ==
    /\ \A r \in 1..Len(networks) :
          \/ FlaggedAsStub(networks[r])
          \/ \A edge \in networks[r].edges : <<edge.source, edge.target>> \in citationData
    /\ Len(networks) = 2 => networks[1].edges = networks[2].edges

\* C25: the merged list of a hybrid search is the semantic-first combination
\* of the two branches' outputs, whichever branch settled first.
HybridMergeIgnoresSettleOrder ==
    (pc \in {"tokens", "done"} /\ hybridPath = "combined") =>
        results = Slice(CombineAndRankResults(semOut, kwOut), limit)

\* the keyword branch settled first and the other order of insertion would
\* have given another list
HybridMergeIgnoresSettleOrderWitness ==
    /\ pc \in {"tokens", "done"} /\ hybridPath = "combined"
    /\ settled = <<"keyword", "semantic">>
    /\ results # <<>>
    /\ results # Slice(CombineAndRankResults(kwOut, semOut), limit)

\* C27: for every valid limit a hybrid search asks each branch for at least
\* one record, so with limit = 1 it returns a matching record when there is
\* one.
HybridBranchLimitsPositive ==
    /\ (mode = "hybrid" /\ limit \in 1..100) =>
          (FloorSeventy(limit) >= 1 /\ FloorHalf(limit) >= 1)
    /\ (Responded /\ mode = "hybrid" /\ kwMatch # {}) => response.results # <<>>

\* C28: with the vector backend failing and the lexical backend working, a
\* hybrid search returns min(limit, number of keyword matches) records, as a
\* keyword search does.
HybridDegradesToKeywordCount ==
    (Responded /\ mode = "hybrid" /\ semSearchFailed /\ ~vecSucceeded /\ ~kwFailed) =>
        Len(response.results) = Min(limit, Cardinality(kwMatch))

====
